---- MODULE Spec2Model ----
(***************************************************************************)
(* The DLNA request router, the SOAP front of the ContentDirectory         *)
(* service and the range streamer of rustymedia (src/dlna/server.rs).      *)
(*                                                                         *)
(* One client (an index of Clients) stands for one HTTP request from the   *)
(* moment hyper hands it to Service::call until the service future has     *)
(* resolved and the spawned body task has ended.  Every future combinator  *)
(* of the source (and_then / or_else closure) is one action; a handler     *)
(* that returns an already resolved future is one action.                  *)
(***************************************************************************)
EXTENDS Integers, Sequences, FiniteSets, TLC

(***************************************************************************)
(* Bounds of the model.                                                    *)
(***************************************************************************)
\* requests in flight at the same time (specification SpecConcurrent)
NumClients == 3
\* width in bits of the model's u64
Width == 3
\* length in bytes of the longest media content
MaxAvail == 4
\* largest chunk a read stream yields
ChunkLen == 2
\* most path segments of a request
MaxPath == 2
\* most tokens of a Soapaction header value
MaxHdrLen == 3
\* requests in flight when responses are streamed beside the cache
NumStreamers == 2
\* seconds of beacon activity observed
Horizon == 35
\* most children a listing of the Media Tree holds
MaxChildren == 4

Clients == 1..NumClients
U64Max == (2 ^ Width) - 1
U64 == 0..U64Max

Min(a, b) == IF a < b THEN a ELSE b

Streamers == 1..Min(NumStreamers, NumClients)

\* u64 arithmetic keeps its width (wrapping, as in a release build)
U64Add(a, b) == (a + b) % (U64Max + 1)
U64Sub(a, b) == (a - b) % (U64Max + 1)

\* Option<T>: None is the empty tuple, Some(x) the tuple of x
None == << >>
Some(x) == << x >>
IsSome(o) == o # << >>
Unwrap(o) == o[1]

SeqsUpTo(S, n) == UNION { [1..k -> S] : k \in 0..n }

(***************************************************************************)
(* The Media Tree (crate::root::Root), an external collaborator: which ids *)
(* resolve, and the bytes behind each item.                                *)
(***************************************************************************)
\* path segments as they appear in a URL (percent-encoded) ...
EncodedIds == { "a", "b%20c", "%ff", "zz" }
\* ... and the ids the tree resolves (an id is its decoded segments)
KnownIds == { << "a" >>, << "b c" >> }

\* the ids that resolve to a directory
Directories == { << "0" >> }

\* the entries a directory can hold: an id (its characters, below the
\* directory) and a file type
Entry(id, type) == [id |-> id, type |-> type]
Entries ==
    { Entry(<< "e", "1" >>, "Video"),
      Entry(<< "e", "2" >>, "Video"),
      Entry(<< "e", "1", "0" >>, "Video"),
      Entry(<< "e", "1", ".", "j" >>, "Image"),
      Entry(<< "e", "2", ".", "j" >>, "Image"),
      Entry(<< "e", "1", "0", ".", "j" >>, "Image"),
      Entry(<< "e", "1", ".", "s" >>, "Subtitles"),
      Entry(<< "d", "2" >>, "Directory"),
      Entry(<< "d", "1", "0" >>, "Directory"),
      Entry(<< "e", "1", ".", "o" >>, "Other") }

\* Object::children(): the entries of a directory, each once, in the order
\* the tree yields them
Listings ==
    { l \in SeqsUpTo(Entries, MaxChildren) :
         \A i, j \in 1..Len(l) : i # j => l[i] # l[j] }

\* Object::prefix(): the id without its extension
prefix(entry) ==
    LET dots == { i \in 1..Len(entry.id) : entry.id[i] = "." } IN
    IF dots = {} THEN entry.id
    ELSE SubSeq(entry.id, 1, (CHOOSE i \in dots : \A j \in dots : j <= i) - 1)

\* percent_decode(..).decode_utf8(): "%20" is a space, "%ff" is not UTF-8
PercentDecode(seg) ==
    CASE seg = "b%20c" -> [ok |-> TRUE, text |-> "b c"]
      [] seg = "%ff"   -> [ok |-> FALSE, text |-> ""]
      [] OTHER         -> [ok |-> TRUE, text |-> seg]

\* Request::decoded_path(): the rest of the path, decoded
decoded_path(path) ==
    IF \A i \in 1..Len(path) : PercentDecode(path[i]).ok
    THEN [ok |-> TRUE, id |-> [i \in 1..Len(path) |-> PercentDecode(path[i]).text]]
    ELSE [ok |-> FALSE, id |-> << >>]

\* Root::lookup(id)
lookup(id) == id \in KnownIds \cup Directories

ContentLen(id) == IF id = << "a" >> THEN MaxAvail ELSE 1
ByteAt(id, off) == (IF id = << "a" >> THEN 10 ELSE 20) + off
ContentOf(id) == [i \in 1..ContentLen(id) |-> ByteAt(id, i - 1)]

\* Item::format(): the probed source format of an item
FormatOf(id) == IF id = << "a" >> THEN "mkv" ELSE "avi"

Devices == { "tv", "phone" }

(***************************************************************************)
(* Media: read_all() and read_range(start, end_exclusive) yield the bytes  *)
(* as a sequence of chunks.                                                *)
(***************************************************************************)
RECURSIVE Chunked(_)
Chunked(s) ==
    IF s = << >> THEN << >>
    ELSE IF Len(s) <= ChunkLen THEN << s >>
    ELSE << SubSeq(s, 1, ChunkLen) >> \o Chunked(SubSeq(s, ChunkLen + 1, Len(s)))

RECURSIVE Flatten(_)
Flatten(cs) == IF cs = << >> THEN << >> ELSE Head(cs) \o Flatten(Tail(cs))

read_all(content) == Chunked(content)
read_range(content, start, end) == Chunked(SubSeq(content, start + 1, end))

(***************************************************************************)
(* Requests.  A Range header is kept as hyper receives it (raw) and is     *)
(* parsed by the typed lookup headers().get::<Range>(); a Soapaction value *)
(* is a sequence of tokens: Q is a double quote, NS the 48 characters      *)
(* "urn:schemas-upnp-org:service:ContentDirectory:1#", any other token a   *)
(* run of other characters.                                                *)
(***************************************************************************)
Methods == { "GET", "POST", "HEAD" }

Segments == { "root.xml", "connection", "content", "files", "video",
              "desc.xml", "control" } \cup EncodedIds

Paths == SeqsUpTo(Segments, MaxPath)

FromTo(a, b) == [kind |-> "FromTo", a |-> a, b |-> b]
AllFrom(a) == [kind |-> "AllFrom", a |-> a, b |-> 0]
Last(n) == [kind |-> "Last", a |-> n, b |-> 0]

\* the byte-range-specs a client can write: start-end (also with end < start),
\* start-, -n
RawSpecs == { FromTo(a, b) : a \in U64, b \in U64 }
            \cup { AllFrom(a) : a \in U64 }
            \cup { Last(1) }

\* a second spec behind the first
MoreSpecs == { AllFrom(0), Last(1) }

RawRanges ==
    { None, Some([unit |-> "items", specs |-> << >>]) }
    \cup { Some([unit |-> "bytes", specs |-> << s >>]) : s \in RawSpecs }
    \cup { Some([unit |-> "bytes", specs |-> << s, t >>]) :
               s \in RawSpecs, t \in MoreSpecs }

\* ByteRangeSpec::from_str accepts start-end only when start <= end
ValidSpec(s) == s.kind = "FromTo" => s.a <= s.b

\* headers().get::<hyper::header::Range>(): specs that do not parse are
\* dropped, a bytes range with no spec left is no header at all
ParseRange(raw) ==
    IF raw = None THEN None
    ELSE IF Unwrap(raw).unit # "bytes" THEN raw
    ELSE LET specs == SelectSeq(Unwrap(raw).specs, ValidSpec)
         IN  IF specs = << >> THEN None
             ELSE Some([unit |-> "bytes", specs |-> specs])

SoapTokens == { "Q", "NS", "Browse", "Search" }
SoapValues == SeqsUpTo(SoapTokens, MaxHdrLen)

Request(m, path, range, soap, dev, obj) ==
    [method |-> m, uri |-> path, path |-> path, range |-> range,
     soapaction |-> soap, device |-> dev, objectId |-> obj]

\* every path with both methods
RouteRequests ==
    { Request(m, path, None, None, "tv", None) : m \in Methods, path \in Paths }

\* video/<id> with every Range header and device
VideoRangeRequests ==
    { Request("GET", << "video", e >>, r, None, "tv", None) :
          e \in { "a", "b%20c" }, r \in RawRanges }

VideoRequests ==
    { Request("GET", << "video", e >>, None, None, d, None) :
          e \in EncodedIds, d \in Devices }

\* content/control with every Soapaction value and body
SoapRequests ==
    { Request("POST", << "content", "control" >>, None, h, "tv", o) :
          h \in { None } \cup { Some(v) : v \in SoapValues },
          o \in { None, Some(<< "a" >>), Some(<< "zz" >>) } }

\* Browse of the directory
BrowseRequests ==
    { Request("POST", << "content", "control" >>, None,
              Some(<< "NS", "Browse" >>), "tv", Some(<< "0" >>)) }

Requests ==
    RouteRequests \cup VideoRangeRequests \cup VideoRequests \cup SoapRequests
       \cup BrowseRequests

(***************************************************************************)
(* Responses and results of futures.                                       *)
(***************************************************************************)
EmptyBody == [kind |-> "empty", data |-> << >>, start |-> 0, end |-> 0]
StaticBody(d) == [kind |-> "static", data |-> d, start |-> 0, end |-> 0]
ReadAllBody == [kind |-> "read_all", data |-> << >>, start |-> 0, end |-> 0]
ReadRangeBody(s, e) == [kind |-> "read_range", data |-> << >>, start |-> s, end |-> e]

\* hyper::Response::new(): status 200, no header, no body
NewResponse ==
    [status |-> 200, contentType |-> "", acceptRanges |-> FALSE,
     contentRange |-> None, contentLength |-> None, body |-> EmptyBody]

Pending == [state |-> "pending", resp |-> NewResponse, err |-> ""]
Ok(r) == [state |-> "ok", resp |-> r, err |-> ""]
Err(e) == [state |-> "err", resp |-> NewResponse, err |-> e]

(***************************************************************************)
(* State.                                                                  *)
(***************************************************************************)
VARIABLES
    pc,       \* pc[p]: the handler or closure request p runs next
    req,      \* req[p]: the dlna::Request (pop() consumes path, not uri)
    trace,    \* trace[p]: the handlers and collaborators p has called
    down,     \* down[p]: what the future of call_root resolved to
    final,    \* final[p]: what the future of Service::call resolved to
    item,     \* item[p]: the id Root::lookup resolved
    size,     \* size[p]: the Size media.size() returned
    didl,     \* didl[p]: the BodyBrowseResponse call_dlna_browse built
    task,     \* task[p]: the spawned send_all task
    chunks,   \* chunks[p]: what the content stream has still to yield
    sent,     \* sent[p]: the chunks pushed into the response body
    rx,       \* rx[p]: the hyper::Body receiver is still alive
    lock,     \* holders of shared.transcode_cache
    transcode_cache,    \* TranscodeCache: the entries [key, job]
    jobs,     \* transcode jobs started, as [job, key]
    found,    \* found[p]: the job p found in the transcode_cache
    handle,   \* handle[p]: the job whose media p holds
    now,      \* seconds since schedule_presence_broadcasts ran
    deadline, \* when the Interval yields its next item
    beacon,   \* the spawned for_each: "waiting", "sending" or "ended"
    nextMsg,  \* the broadcast_message call the burst makes next
    outcome,  \* how the latest socket.send ended
    bursts    \* the bursts so far: when, and the datagrams handed over

reqVars == << req, trace, down, final, item, size, didl >>
streamVars == << task, chunks, sent, rx >>
cacheVars == << lock, transcode_cache, jobs, found, handle >>
beaconVars == << now, deadline, beacon, nextMsg, outcome, bursts >>
serverVars == << pc, reqVars, streamVars, cacheVars >>
vars == << pc, reqVars, streamVars, cacheVars, beaconVars >>

NoRequest == Request("", << >>, None, None, "", None)
NoSize == [available |-> 0, total |-> None]

Init ==
    /\ pc = [p \in Clients |-> "idle"]
    /\ req = [p \in Clients |-> NoRequest]
    /\ trace = [p \in Clients |-> << >>]
    /\ down = [p \in Clients |-> Pending]
    /\ final = [p \in Clients |-> Pending]
    /\ item = [p \in Clients |-> None]
    /\ size = [p \in Clients |-> NoSize]
    /\ didl = [p \in Clients |-> None]
    /\ task = [p \in Clients |-> "none"]
    /\ chunks = [p \in Clients |-> << >>]
    /\ sent = [p \in Clients |-> << >>]
    /\ rx = [p \in Clients |-> TRUE]
    /\ lock = {}
    /\ transcode_cache = {}
    /\ jobs = {}
    /\ found = [p \in Clients |-> None]
    /\ handle = [p \in Clients |-> None]
    /\ now = 0
    /\ deadline = 0
    /\ beacon = "waiting"
    /\ nextMsg = 1
    /\ outcome = "none"
    /\ bursts = << >>

\* Request::pop(): the next path segment, removed from the path
pop(r) == IF r.path = << >> THEN "" ELSE Head(r.path)
PopRest(r) == [r EXCEPT !.path = IF r.path = << >> THEN << >> ELSE Tail(r.path)]

\* p enters handler h having consumed one segment
Dispatch(p, h) ==
    /\ pc' = [pc EXCEPT ![p] = h]
    /\ req' = [req EXCEPT ![p] = PopRest(req[p])]
    /\ trace' = [trace EXCEPT ![p] = Append(@, pc[p])]
    /\ UNCHANGED << down, final, item, size, didl, streamVars, cacheVars, beaconVars >>

\* the future of call_root resolves to result r
Resolve(p, r, called) ==
    /\ pc' = [pc EXCEPT ![p] = "or_else"]
    /\ down' = [down EXCEPT ![p] = r]
    /\ trace' = [trace EXCEPT ![p] = @ \o called]

(***************************************************************************)
(* Service::call and the router.                                           *)
(***************************************************************************)
\* Service::call: wrap the hyper request and enter call_root
call(p, requests) ==
    /\ pc[p] = "idle"
    /\ \E r \in requests :
          req' = [req EXCEPT ![p] = r]
    /\ pc' = [pc EXCEPT ![p] = "call_root"]
    /\ UNCHANGED << trace, down, final, item, size, didl, streamVars, cacheVars, beaconVars >>

\* IsGet of a handler that does not look at the method
AnyMethod(m) == TRUE

\* *req.req.method() != hyper::Method::Get, negated
IsGet(m) == m = "GET"

\* RootTarget whose default arm serves files
RootTargetFiles(seg) ==
    CASE seg = "connection" -> "call_connection"
      [] seg = "content"    -> "call_content"
      [] seg = "video"      -> "call_video"
      [] OTHER              -> "call_files"

\* the arms of call_root's match other than root.xml
RootTarget(seg) ==
    CASE seg = "connection" -> "call_connection"
      [] seg = "content"    -> "call_content"
      [] seg = "files"      -> "call_files"
      [] seg = "video"      -> "call_video"
      [] OTHER              -> "call_not_found"

call_root(p) ==
    /\ pc[p] = "call_root"
    /\ LET seg == pop(req[p]) IN
       IF seg = "root.xml"
       THEN IF ~IsGet(req[p].method)
            THEN Dispatch(p, "call_method_not_allowed")
            ELSE /\ Resolve(p, Ok([NewResponse EXCEPT
                                     !.status = 200,
                                     !.body = StaticBody(<< "root.xml" >>)]),
                            << "call_root", "root.xml" >>)
                 /\ req' = [req EXCEPT ![p] = PopRest(req[p])]
                 /\ UNCHANGED << final, item, size, didl, streamVars, cacheVars, beaconVars >>
       ELSE Dispatch(p, RootTarget(seg))

call_connection(p) ==
    /\ pc[p] = "call_connection"
    /\ IF pop(req[p]) = "desc.xml"
       THEN /\ Resolve(p, Ok([NewResponse EXCEPT
                                !.body = StaticBody(<< "connection.xml" >>)]),
                       << "call_connection", "connection/desc.xml" >>)
            /\ req' = [req EXCEPT ![p] = PopRest(req[p])]
            /\ UNCHANGED << final, item, size, didl, streamVars, cacheVars, beaconVars >>
       ELSE Dispatch(p, "call_not_found")

call_content(p) ==
    /\ pc[p] = "call_content"
    /\ LET seg == pop(req[p]) IN
       CASE seg = "control" -> Dispatch(p, "call_content_soap")
         [] seg = "desc.xml" ->
              /\ Resolve(p, Ok([NewResponse EXCEPT
                                  !.body = StaticBody(<< "content.xml" >>)]),
                         << "call_content", "content/desc.xml" >>)
              /\ req' = [req EXCEPT ![p] = PopRest(req[p])]
              /\ UNCHANGED << final, item, size, didl, streamVars, cacheVars, beaconVars >>
         [] OTHER -> Dispatch(p, "call_not_found")

\* call_not_found: read the request body, then answer 404
call_not_found(p) ==
    /\ pc[p] = "call_not_found"
    /\ \E bodyRead \in BOOLEAN :
          Resolve(p,
                  IF bodyRead THEN Ok([NewResponse EXCEPT !.status = 404])
                  ELSE Err("Body"),
                  << "call_not_found" >>)
    /\ UNCHANGED << req, final, item, size, didl, streamVars, cacheVars, beaconVars >>

call_method_not_allowed(p) ==
    /\ pc[p] = "call_method_not_allowed"
    /\ Resolve(p, Ok([NewResponse EXCEPT !.status = 405]),
               << "call_method_not_allowed" >>)
    /\ UNCHANGED << req, final, item, size, didl, streamVars, cacheVars, beaconVars >>

\* the or_else of Service::call: an error becomes a fixed 500
InternalError ==
    [NewResponse EXCEPT !.status = 500, !.body = StaticBody(<< "Internal Error" >>)]

\* Recover putting the error into the body
RecoverLeak(r) ==
    IF r.state = "err"
    THEN Ok([InternalError EXCEPT !.body = StaticBody(<< "Internal Error: ", r.err >>)])
    ELSE r

\* or_else: an Ok passes through, an Err is replaced
Recover(r) == IF r.state = "err" THEN Ok(InternalError) ELSE r

OrElse(p) ==
    /\ pc[p] = "or_else"
    /\ final' = [final EXCEPT ![p] = Recover(down[p])]
    /\ pc' = [pc EXCEPT ![p] = "done"]
    /\ UNCHANGED << req, trace, down, item, size, didl, streamVars, cacheVars, beaconVars >>

(***************************************************************************)
(* content/control: the SOAP front.                                        *)
(***************************************************************************)
\* str::trim_matches('"')
RECURSIVE TrimStart(_)
TrimStart(v) == IF v # << >> /\ Head(v) = "Q" THEN TrimStart(Tail(v)) ELSE v

RECURSIVE TrimEnd(_)
TrimEnd(v) ==
    IF v # << >> /\ v[Len(v)] = "Q" THEN TrimEnd(SubSeq(v, 1, Len(v) - 1)) ELSE v

TrimMatches(v) == TrimEnd(TrimStart(v))

\* StartsWithNamespace accepting any namespace
StartsWithAnything(v) == v # << >>

\* str::starts_with("urn:schemas-upnp-org:service:ContentDirectory:1#")
StartsWithNamespace(v) == v # << >> /\ Head(v) = "NS"

\* {:?} of a str: quoted, inner quotes escaped
DebugStr(v) ==
    << "Q" >> \o [i \in 1..Len(v) |-> IF v[i] = "Q" THEN "\\Q" ELSE v[i]] \o << "Q" >>

\* xml::serialize of an Envelope: the kinds of body built here serialize
XmlSerialize(body) ==
    IF Head(body) \in { "Fault", "BrowseResponse" }
    THEN Some(<< "Envelope" >> \o body)
    ELSE None

\* respond_soap: Result of the response carrying the serialized envelope
respond_soap(body) ==
    IF IsSome(XmlSerialize(body))
    THEN Ok([NewResponse EXCEPT !.contentType = "text/xml",
                                !.body = StaticBody(Unwrap(XmlSerialize(body)))])
    ELSE Err("Serialize")

respond_soap_fault(msg) == respond_soap(<< "Fault", "SOAP-ENV:Client" >> \o msg)

\* IsBrowse matching every action that begins with Browse
BeginsWithBrowse(name) == name # << >> /\ Head(name) = "Browse"

\* match &action[..] { "Browse" => .., other => .. }
IsBrowse(name) == name = << "Browse" >>

call_content_soap(p) ==
    /\ pc[p] = "call_content_soap"
    /\ LET hdr == req[p].soapaction
           action == TrimMatches(Unwrap(hdr))
       IN  IF hdr = None
           THEN Resolve(p, respond_soap_fault(<< "No Soapaction header." >>),
                        << "call_content_soap" >>)
           ELSE IF ~StartsWithNamespace(action)
           THEN Resolve(p, respond_soap_fault(<< "Unknown action namespace: " >>
                                             \o DebugStr(action)),
                        << "call_content_soap" >>)
           ELSE IF IsBrowse(Tail(action))
           THEN /\ pc' = [pc EXCEPT ![p] = "to_xml"]
                /\ trace' = [trace EXCEPT ![p] = Append(@, "call_content_soap")]
                /\ UNCHANGED down
           ELSE Resolve(p, respond_soap_fault(<< "Unknown action " >>
                                             \o DebugStr(Tail(action))),
                        << "call_content_soap" >>)
    /\ UNCHANGED << req, final, item, size, didl, streamVars, cacheVars, beaconVars >>

\* req.to_xml(): read the body and parse it as the Browse envelope
to_xml(p) ==
    /\ pc[p] = "to_xml"
    /\ \E bodyRead \in BOOLEAN :
          IF ~bodyRead
          THEN Resolve(p, Err("Body"), << "to_xml" >>)
          ELSE IF req[p].objectId = None
          THEN Resolve(p, Err("Xml"), << "to_xml" >>)
          ELSE /\ pc' = [pc EXCEPT ![p] = "call_dlna_browse"]
               /\ trace' = [trace EXCEPT ![p] = Append(@, "to_xml")]
               /\ UNCHANGED down
    /\ UNCHANGED << req, final, item, size, didl, streamVars, cacheVars, beaconVars >>

\* the byte of a character
Code(c) ==
    CASE c = "." -> 46
      [] c = "0" -> 48
      [] c = "1" -> 49
      [] c = "2" -> 50
      [] c = "d" -> 100
      [] c = "e" -> 101
      [] c = "j" -> 106
      [] c = "o" -> 111
      [] c = "s" -> 115

IsDigit(c) == c \in { "0", "1", "2" }

\* str::cmp: the order of the bytes
RECURSIVE StrCmp(_, _)
StrCmp(l, r) ==
    IF l = << >> THEN (IF r = << >> THEN "Equal" ELSE "Less")
    ELSE IF r = << >> THEN "Greater"
    ELSE IF Code(Head(l)) < Code(Head(r)) THEN "Less"
    ELSE IF Code(Head(l)) > Code(Head(r)) THEN "Greater"
    ELSE StrCmp(Tail(l), Tail(r))

\* str::starts_with
starts_with(s, pfx) == Len(pfx) <= Len(s) /\ SubSeq(s, 1, Len(pfx)) = pfx

\* the digits a string begins with, and their value
RECURSIVE DigitRun(_)
DigitRun(s) ==
    IF s # << >> /\ IsDigit(Head(s)) THEN 1 + DigitRun(Tail(s)) ELSE 0

RECURSIVE NumVal(_, _)
NumVal(s, n) ==
    IF n = 0 THEN 0 ELSE 10 * NumVal(s, n - 1) + (Code(s[n]) - Code("0"))

\* crate::human_order: the order of the bytes, but two runs of digits are
\* compared by their value
RECURSIVE human_order(_, _)
human_order(l, r) ==
    IF l = << >> THEN (IF r = << >> THEN "Equal" ELSE "Less")
    ELSE IF r = << >> THEN "Greater"
    ELSE IF IsDigit(Head(l)) /\ IsDigit(Head(r))
    THEN LET nl == DigitRun(l)
             nr == DigitRun(r)
         IN  IF NumVal(l, nl) < NumVal(r, nr) THEN "Less"
             ELSE IF NumVal(l, nl) > NumVal(r, nr) THEN "Greater"
             ELSE human_order(SubSeq(l, nl + 1, Len(l)), SubSeq(r, nr + 1, Len(r)))
    ELSE IF Code(Head(l)) < Code(Head(r)) THEN "Less"
    ELSE IF Code(Head(l)) > Code(Head(r)) THEN "Greater"
    ELSE human_order(Tail(l), Tail(r))

\* the file types the match of the partition sends to each vector
ContainerTypes == { "Directory" }
ItemTypes == { "Video" }

\* SupportTypes taking the entries of type Other too
SupportTypesAndOther == { "Image", "Subtitles", "Other" }

SupportTypes == { "Image", "Subtitles" }

\* the entries pushed to one vector, in the order of the listing
Partition(listing, types) == SelectSeq(listing, LAMBDA e : e.type \in types)

\* one step of the sort: e goes before the first entry that is Greater
InsertSorted(sorted, e) ==
    LET after == { i \in 1..Len(sorted) : human_order(sorted[i].id, e.id) = "Greater" }
        at == IF after = {} THEN Len(sorted) + 1
              ELSE CHOOSE i \in after : \A j \in after : i <= j
    IN  SubSeq(sorted, 1, at - 1) \o << e >> \o SubSeq(sorted, at, Len(sorted))

RECURSIVE SortEntries(_)
SortEntries(entries) ==
    IF entries = << >> THEN << >>
    ELSE InsertSorted(SortEntries(SubSeq(entries, 1, Len(entries) - 1)),
                      entries[Len(entries)])

\* sort_by left out: the vector stays in the order of the listing
Unsorted(entries) == entries

\* v.sort_by(|l, r| crate::human_order(l.id(), r.id())), a stable sort
sort_by(entries) == SortEntries(entries)

\* slice::binary_search_by as released up to Rust 1.51 (indexes from 0)
RECURSIVE HalveBase(_, _, _, _)
HalveBase(s, key, base, sz) ==
    IF sz > 1
    THEN LET half == sz \div 2
             mid == base + half
         IN  HalveBase(s, key,
                       IF StrCmp(s[mid + 1].id, key) = "Greater" THEN base ELSE mid,
                       sz - half)
    ELSE base

BinarySearchHalving(s, key) ==
    IF s = << >> THEN 0
    ELSE LET base == HalveBase(s, key, 0, Len(s))
             cmp == StrCmp(s[base + 1].id, key)
         IN  IF cmp = "Equal" THEN base
             ELSE IF cmp = "Less" THEN base + 1 ELSE base

\* slice::binary_search_by as released since Rust 1.52
RECURSIVE Bisect(_, _, _, _)
Bisect(s, key, left, right) ==
    IF left < right
    THEN LET mid == left + ((right - left) \div 2)
             cmp == StrCmp(s[mid + 1].id, key)
         IN  IF cmp = "Less" THEN Bisect(s, key, mid + 1, right)
             ELSE IF cmp = "Greater" THEN Bisect(s, key, left, mid)
             ELSE mid
    ELSE left

BinarySearchVersions == { "halving", "bisect" }

\* support.binary_search_by_key(&prefix, |e| e.id()).unwrap_or_else(|e| e)
binary_search_by_key(s, key, version) ==
    IF version = "halving" THEN BinarySearchHalving(s, key)
    ELSE Bisect(s, key, 0, Len(s))

ImageRes(entry) ==
    [protocol_info |-> "http-get:*:image/jpeg:*", uri |-> << "files" >> \o entry.id]
VideoRes(entry) ==
    [protocol_info |-> "http-get:*:video/x-matroska:*", uri |-> << "video" >> \o entry.id]

\* for support in &support[start..]: the resources pushed, and whether an
\* unreachable!() arm was entered (i counts from 1)
RECURSIVE SupportScan(_, _, _)
SupportScan(support, i, pfx) ==
    IF i > Len(support) \/ ~starts_with(support[i].id, pfx)
    THEN [res |-> << >>, panic |-> FALSE]
    ELSE IF support[i].type = "Image"
    THEN [SupportScan(support, i + 1, pfx) EXCEPT !.res = << ImageRes(support[i]) >> \o @]
    ELSE IF support[i].type = "Subtitles"
    THEN SupportScan(support, i + 1, pfx)
    ELSE [res |-> << >>, panic |-> TRUE]

\* the closure mapping one video entry to its Item
BrowseItem(entry, support, version) ==
    LET start == binary_search_by_key(support, prefix(entry), version)
        scan == SupportScan(support, start + 1, prefix(entry))
    IN  [id |-> entry.id, res |-> << VideoRes(entry) >> \o scan.res, panic |-> scan.panic]

\* the BodyBrowseResponse built from a listing
BrowseResult(listing, version) ==
    LET containers == sort_by(Partition(listing, ContainerTypes))
        items == sort_by(Partition(listing, ItemTypes))
        support == sort_by(Partition(listing, SupportTypes))
        built == [i \in 1..Len(items) |-> BrowseItem(items[i], support, version)]
    IN  [children |-> listing,
         containers |-> [i \in 1..Len(containers) |-> [id |-> containers[i].id]],
         items |-> [i \in 1..Len(built) |-> [id |-> built[i].id, res |-> built[i].res]],
         support |-> support,
         panic |-> \E i \in 1..Len(built) : built[i].panic]

\* a failed lookup or children listing turned into a SOAP Fault
BrowseFailureFault(e) == respond_soap_fault(<< e >>)

\* the ? of root.lookup(..)? and object.children()?
BrowseFailure(e) == Err(e)

\* call_dlna_browse: resolve the object, list its children, answer
call_dlna_browse(p) ==
    /\ pc[p] = "call_dlna_browse"
    /\ LET id == Unwrap(req[p].objectId) IN
       IF ~lookup(id)
       THEN /\ Resolve(p, BrowseFailure("NotFound"), << "call_dlna_browse", "lookup" >>)
            /\ UNCHANGED << item, didl >>
       ELSE /\ item' = [item EXCEPT ![p] = Some(id)]
            /\ \/ /\ Resolve(p, BrowseFailure("Children"),
                             << "call_dlna_browse", "lookup", "children" >>)
                  /\ UNCHANGED didl
               \/ /\ id \in Directories
                  /\ \E listing \in Listings, version \in BinarySearchVersions :
                        LET result == BrowseResult(listing, version) IN
                        /\ didl' = [didl EXCEPT ![p] = Some(result)]
                        /\ IF result.panic
                           THEN /\ pc' = [pc EXCEPT ![p] = "panicked"]
                                /\ trace' = [trace EXCEPT ![p] =
                                      @ \o << "call_dlna_browse", "lookup", "children" >>]
                                /\ UNCHANGED down
                           ELSE Resolve(p, respond_soap(<< "BrowseResponse", "DIDL-Lite" >>),
                                        << "call_dlna_browse", "lookup", "children" >>)
    /\ UNCHANGED << req, final, size, streamVars, cacheVars, beaconVars >>

(***************************************************************************)
(* The body task: sender.send_all(content), spawned on the executor.       *)
(***************************************************************************)
\* exec.spawn(sender.send_all(content)) succeeded: the task runs
Spawn(p, content) ==
    /\ task' = [task EXCEPT ![p] = "running"]
    /\ chunks' = [chunks EXCEPT ![p] = content]
    /\ UNCHANGED << sent, rx >>

\* ReceiverGone of a sender that never learns of the dropped receiver
ReceiverNeverGone(p) == FALSE

\* Sink::start_send fails once the receiving half of the body is dropped
ReceiverGone(p) == ~rx[p]

\* send_all moves the next chunk of the content stream into the body
SendChunk(p) ==
    /\ task[p] = "running"
    /\ chunks[p] # << >>
    /\ ~ReceiverGone(p)
    /\ sent' = [sent EXCEPT ![p] = Append(@, Head(chunks[p]))]
    /\ chunks' = [chunks EXCEPT ![p] = Tail(@)]
    /\ UNCHANGED << pc, reqVars, task, rx, cacheVars, beaconVars >>

\* the content stream is exhausted: send_all completes, the sender is dropped
SendAllDone(p) ==
    /\ task[p] = "running"
    /\ chunks[p] = << >>
    /\ task' = [task EXCEPT ![p] = "ok"]
    /\ UNCHANGED << pc, reqVars, chunks, sent, rx, cacheVars, beaconVars >>

\* send_all takes the next chunk, and the send into a body whose receiver
\* is gone fails: "Error sending body."
SendError(p) ==
    /\ task[p] = "running"
    /\ chunks[p] # << >>
    /\ ReceiverGone(p)
    /\ task' = [task EXCEPT ![p] = "err"]
    /\ chunks' = [chunks EXCEPT ![p] = Tail(@)]
    /\ UNCHANGED << pc, reqVars, sent, rx, cacheVars, beaconVars >>

\* the content stream yields an error instead of its next chunk
ReadError(p) ==
    /\ task[p] = "running"
    /\ chunks[p] # << >>
    /\ task' = [task EXCEPT ![p] = "err"]
    /\ UNCHANGED << pc, reqVars, chunks, sent, rx, cacheVars, beaconVars >>

\* the client goes away: hyper drops the receiving half of the body
ClientDisconnect(p) ==
    /\ task[p] = "running"
    /\ rx[p]
    /\ rx' = [rx EXCEPT ![p] = FALSE]
    /\ UNCHANGED << pc, reqVars, task, chunks, sent, cacheVars, beaconVars >>

(***************************************************************************)
(* files/<id>: the raw bytes of an item.                                   *)
(***************************************************************************)
OctetStream == "application/octet-stream"

call_files(p) ==
    /\ pc[p] = "call_files"
    /\ LET path == decoded_path(req[p].path) IN
       IF ~path.ok
       THEN /\ Resolve(p, Err("BadPath"), << "call_files" >>)
            /\ UNCHANGED << item, streamVars >>
       ELSE IF ~lookup(path.id)
       THEN /\ Resolve(p, Err("NotFound"), << "call_files", "lookup" >>)
            /\ UNCHANGED << item, streamVars >>
       ELSE /\ item' = [item EXCEPT ![p] = Some(path.id)]
            /\ \E opened \in BOOLEAN, spawned \in BOOLEAN :
                  IF ~opened
                  THEN /\ Resolve(p, Err("Open"), << "call_files", "lookup" >>)
                       /\ UNCHANGED streamVars
                  ELSE IF ~spawned
                  THEN /\ Resolve(p, Err("Spawn"), << "call_files", "lookup" >>)
                       /\ UNCHANGED streamVars
                  ELSE /\ Resolve(p, Ok([NewResponse EXCEPT
                                            !.contentType = OctetStream,
                                            !.body = ReadAllBody]),
                                  << "call_files", "lookup" >>)
                       /\ Spawn(p, read_all(ContentOf(path.id)))
    /\ UNCHANGED << req, final, size, didl, cacheVars, beaconVars >>

(***************************************************************************)
(* video/<id>: the transcode cache and the range streamer.                 *)
(***************************************************************************)
call_video(p) ==
    /\ pc[p] = "call_video"
    /\ LET path == decoded_path(req[p].path) IN
       IF ~path.ok
       THEN /\ Resolve(p, Err("BadPath"), << "call_video" >>)
            /\ UNCHANGED item
       ELSE IF ~lookup(path.id)
       THEN /\ Resolve(p, Err("NotFound"), << "call_video", "lookup" >>)
            /\ UNCHANGED item
       ELSE /\ item' = [item EXCEPT ![p] = Some(path.id)]
            /\ pc' = [pc EXCEPT ![p] = "format"]
            /\ trace' = [trace EXCEPT ![p] = @ \o << "call_video", "lookup" >>]
            /\ UNCHANGED down
    /\ UNCHANGED << req, final, size, didl, streamVars, cacheVars, beaconVars >>

\* the future of item.format(&exec) resolves
FormatProbe(p) ==
    /\ pc[p] = "format"
    /\ \E probed \in BOOLEAN :
          IF probed
          THEN /\ pc' = [pc EXCEPT ![p] = "cache_lock"]
               /\ UNCHANGED << down, trace >>
          ELSE Resolve(p, Err("Probe"), << >>)
    /\ UNCHANGED << req, final, item, size, didl, streamVars, cacheVars, beaconVars >>

\* the TranscodeKey of p's request: (item, format, device)
TranscodeKey(p) == << Unwrap(item[p]), FormatOf(Unwrap(item[p])), req[p].device >>

\* LockFree of a lock that excludes nobody
LockAlwaysFree == TRUE

\* a std::sync::Mutex is acquired only while nobody holds it
LockFree == lock = {}

\* server.shared.transcode_cache.lock().unwrap()
LockTranscodeCache(p) ==
    /\ pc[p] = "cache_lock"
    /\ LockFree
    /\ lock' = lock \cup { p }
    /\ pc' = [pc EXCEPT ![p] = "cache_lookup"]
    /\ UNCHANGED << reqVars, streamVars, transcode_cache, jobs, found, handle, beaconVars >>

\* TranscodeCache::get, first half: look the key up
CacheLookup(p) ==
    /\ pc[p] = "cache_lookup"
    /\ found' = [found EXCEPT ![p] =
                    IF \E e \in transcode_cache : e.key = TranscodeKey(p)
                    THEN Some((CHOOSE e \in transcode_cache : e.key = TranscodeKey(p)).job)
                    ELSE None]
    /\ pc' = [pc EXCEPT ![p] = "cache_insert"]
    /\ UNCHANGED << reqVars, streamVars, lock, transcode_cache, jobs, handle, beaconVars >>

\* DropGuard of a guard that lives on in the future of the response
KeepGuard(p) == lock

\* the MutexGuard goes out of scope at the end of the closure
DropGuard(p) == lock \ { p }

\* TranscodeCache::get, second half: attach to the job found, or start one and
\* enter it; the guard is dropped when the closure returns
CacheInsert(p) ==
    /\ pc[p] = "cache_insert"
    /\ lock' = DropGuard(p)
    /\ IF IsSome(found[p])
       THEN /\ handle' = [handle EXCEPT ![p] = found[p]]
            /\ pc' = [pc EXCEPT ![p] = "respond_video"]
            /\ UNCHANGED << transcode_cache, jobs, down, trace >>
       ELSE \E started \in BOOLEAN :
               IF started
               THEN LET j == Cardinality(jobs) + 1 IN
                    /\ jobs' = jobs \cup { [job |-> j, key |-> TranscodeKey(p)] }
                    /\ transcode_cache' = { e \in transcode_cache : e.key # TranscodeKey(p) }
                                \cup { [key |-> TranscodeKey(p), job |-> j] }
                    /\ handle' = [handle EXCEPT ![p] = Some(j)]
                    /\ pc' = [pc EXCEPT ![p] = "respond_video"]
                    /\ UNCHANGED << down, trace >>
               ELSE /\ Resolve(p, Err("Transcode"), << >>)
                    /\ UNCHANGED << transcode_cache, jobs, handle >>
    /\ UNCHANGED << req, final, item, size, didl, streamVars, found, beaconVars >>

\* FirstRange with the requested end left unclamped
FirstRangeUnclamped(hdr, available) ==
    IF hdr = None THEN None
    ELSE IF Unwrap(hdr).unit # "bytes" THEN None
    ELSE IF Unwrap(hdr).specs = << >> THEN None
    ELSE LET spec == Head(Unwrap(hdr).specs) IN
         CASE spec.kind = "FromTo" ->
                 IF spec.a < available THEN Some(<< spec.a, spec.b >>) ELSE None
           [] spec.kind = "AllFrom" ->
                 IF spec.a < available
                 THEN Some(<< spec.a, U64Sub(available, 1) >>)
                 ELSE None
           [] OTHER -> None

\* FirstRange accepting a start equal to what is available
FirstRangeInclusive(hdr, available) ==
    IF hdr = None THEN None
    ELSE IF Unwrap(hdr).unit # "bytes" THEN None
    ELSE IF Unwrap(hdr).specs = << >> THEN None
    ELSE LET spec == Head(Unwrap(hdr).specs) IN
         CASE spec.kind = "FromTo" ->
                 IF spec.a <= available
                 THEN Some(<< spec.a, Min(spec.b, U64Sub(available, 1)) >>)
                 ELSE None
           [] spec.kind = "AllFrom" ->
                 IF spec.a <= available
                 THEN Some(<< spec.a, U64Sub(available, 1) >>)
                 ELSE None
           [] OTHER -> None

\* FirstRange clamping the end to what is available, not to the last byte
FirstRangeOffByOne(hdr, available) ==
    IF hdr = None THEN None
    ELSE IF Unwrap(hdr).unit # "bytes" THEN None
    ELSE IF Unwrap(hdr).specs = << >> THEN None
    ELSE LET spec == Head(Unwrap(hdr).specs) IN
         CASE spec.kind = "FromTo" ->
                 IF spec.a < available
                 THEN Some(<< spec.a, Min(spec.b, available) >>)
                 ELSE None
           [] spec.kind = "AllFrom" ->
                 IF spec.a < available
                 THEN Some(<< spec.a, U64Sub(available, 1) >>)
                 ELSE None
           [] OTHER -> None

\* the first byte-range-spec of the Range header, clamped to what is available
FirstRange(hdr, available) ==
    IF hdr = None THEN None
    ELSE IF Unwrap(hdr).unit # "bytes" THEN None
    ELSE IF Unwrap(hdr).specs = << >> THEN None
    ELSE LET spec == Head(Unwrap(hdr).specs) IN
         CASE spec.kind = "FromTo" ->
                 IF spec.a < available
                 THEN Some(<< spec.a, Min(spec.b, U64Sub(available, 1)) >>)
                 ELSE None
           [] spec.kind = "AllFrom" ->
                 IF spec.a < available
                 THEN Some(<< spec.a, U64Sub(available, 1) >>)
                 ELSE None
           [] OTHER -> None

\* RangeEnd handing over the inclusive end
RangeEndInclusive(end) == end

\* the exclusive end handed to read_range
RangeEnd(end) == U64Add(end, 1)

\* FullLength falling back to what is available
FullLengthAvailable(sz) == IF IsSome(sz.total) THEN sz.total ELSE Some(sz.available)

\* Content-Length of the no-range answer: only a known total
FullLength(sz) == sz.total

\* status, headers and content source for a media of Size sz
VideoResponse(hdr, sz) ==
    LET range == FirstRange(hdr, sz.available)
        base == [NewResponse EXCEPT !.acceptRanges = TRUE,
                                    !.contentType = OctetStream]
    IN  IF IsSome(range)
        THEN LET start == Unwrap(range)[1]
                 end == Unwrap(range)[2]
             IN  [base EXCEPT
                    !.status = 206,
                    !.contentRange = Some([first |-> start, last |-> end,
                                           instance_length |-> sz.total]),
                    !.contentLength = Some(U64Sub(U64Add(end, 1), start)),
                    !.body = ReadRangeBody(start, RangeEnd(end))]
        ELSE [base EXCEPT !.contentLength = FullLength(sz), !.body = ReadAllBody]

\* the chunks the content source of a response yields
BodyChunks(content, body) ==
    IF body.kind = "read_range"
    THEN read_range(content, body.start, body.end)
    ELSE read_all(content)

\* the Size a media of id can report: some bytes ready, the total known or not
Sizes(id) ==
    { [available |-> a, total |-> t] :
          a \in 0..ContentLen(id), t \in { None, Some(ContentLen(id)) } }

\* the closure building the video response and spawning its body task
RespondVideo(p) ==
    /\ pc[p] = "respond_video"
    /\ \E sz \in Sizes(Unwrap(item[p])), spawned \in BOOLEAN :
          LET resp == VideoResponse(ParseRange(req[p].range), sz) IN
          /\ size' = [size EXCEPT ![p] = sz]
          /\ IF spawned
             THEN /\ Resolve(p, Ok(resp), << >>)
                  /\ Spawn(p, BodyChunks(ContentOf(Unwrap(item[p])), resp.body))
             ELSE /\ Resolve(p, Err("Spawn"), << >>)
                  /\ UNCHANGED streamVars
    /\ UNCHANGED << req, final, item, didl, cacheVars, beaconVars >>

(***************************************************************************)
(* The presence beacon (dlna::discovery::schedule_presence_broadcasts).    *)
(***************************************************************************)
\* Duration::from_secs(10)
IntervalSecs == 10

\* the descs of the datagrams of one round, in the order of the calls
Messages == << "uuid", "root", "mediaserver", "connectionmanager", "contentdir" >>

\* Rounds of a burst that sends every datagram three times
RoundsThrice == 3

\* for _ in 0..1
Rounds == 1

\* what socket.send can answer: all written, fewer bytes written, an error
SendOutcomes == { "ok", "short", "err" }

\* OnSendError of a burst without or_else: the error ends the for_each
SendErrorEnds == "ended"

\* .or_else(|e| { eprintln!(..); Ok(()) }): the for_each goes on
OnSendError == "waiting"

\* time passes while the task waits for the Interval
Elapse ==
    /\ beacon = "waiting"
    /\ now < deadline
    /\ now < Horizon
    /\ now' = now + 1
    /\ UNCHANGED << deadline, beacon, nextMsg, outcome, bursts, serverVars >>

\* the Interval yields an item: for_each calls broadcast_presence
IntervalTick ==
    /\ beacon = "waiting"
    /\ deadline <= now
    /\ deadline' = deadline + IntervalSecs
    /\ beacon' = "sending"
    /\ nextMsg' = 1
    /\ outcome' = "none"
    /\ bursts' = Append(bursts, [at |-> now, sent |-> << >>, failed |-> FALSE])
    /\ UNCHANGED << now, serverVars >>

\* one broadcast_message(desc, data)? of broadcast_presence
broadcast_message ==
    /\ beacon = "sending"
    /\ \E o \in SendOutcomes :
          LET desc == Messages[((nextMsg - 1) % Len(Messages)) + 1]
              n == Len(bursts)
          IN  /\ outcome' = o
              /\ IF o = "err"
                 THEN /\ bursts' = [bursts EXCEPT ![n].failed = TRUE]
                      /\ beacon' = OnSendError
                      /\ UNCHANGED nextMsg
                 ELSE /\ bursts' = [bursts EXCEPT ![n].sent = Append(@, desc)]
                      /\ IF nextMsg = Rounds * Len(Messages)
                         THEN beacon' = "waiting" /\ UNCHANGED nextMsg
                         ELSE beacon' = "sending" /\ nextMsg' = nextMsg + 1
    /\ UNCHANGED << now, deadline, serverVars >>

NextBeacon == Elapse \/ IntervalTick \/ broadcast_message

SpecBeacon == Init /\ [][NextBeacon]_vars

\* the reactor keeps polling the spawned task and time goes on
SpecBeaconFair == SpecBeacon /\ WF_vars(NextBeacon)

(***************************************************************************)
(* Specifications.                                                         *)
(***************************************************************************)
\* what one request does
Serve(p) ==
    \/ call_root(p)
    \/ call_connection(p)
    \/ call_content(p)
    \/ call_content_soap(p)
    \/ to_xml(p)
    \/ call_dlna_browse(p)
    \/ call_files(p)
    \/ call_video(p)
    \/ FormatProbe(p)
    \/ LockTranscodeCache(p)
    \/ CacheLookup(p)
    \/ CacheInsert(p)
    \/ RespondVideo(p)
    \/ call_not_found(p)
    \/ call_method_not_allowed(p)
    \/ OrElse(p)
    \/ SendChunk(p)
    \/ SendAllDone(p)
    \/ SendError(p)
    \/ ReadError(p)
    \/ ClientDisconnect(p)

\* one request, of every kind
Next == call(1, Requests) \/ Serve(1)

Spec == Init /\ [][Next]_vars

\* the requests racing for the cache: one item, every device
ConcurrentRequests ==
    { Request("GET", << "video", "a" >>, None, None, d, None) : d \in Devices }

\* NumClients requests at once, from Service::call to the media handle
NextConcurrent ==
    \E p \in Clients :
       \/ call(p, ConcurrentRequests)
       \/ call_root(p)
       \/ call_video(p)
       \/ FormatProbe(p)
       \/ LockTranscodeCache(p)
       \/ CacheLookup(p)
       \/ CacheInsert(p)

SpecConcurrent == Init /\ [][NextConcurrent]_vars

\* a step of the spawned body task of p
BodyTask(p) == SendChunk(p) \/ SendAllDone(p) \/ SendError(p) \/ ReadError(p)

\* files/<id> and video/<id> of the items, whole or from the second byte on
BodyRequests ==
    { Request("GET", << seg, e >>, r, None, "tv", None) :
          seg \in { "files", "video" }, e \in { "a", "b%20c" },
          r \in { None, Some([unit |-> "bytes", specs |-> << AllFrom(1) >>]) } }

\* one request with a streamed body, and the client that may leave
NextBodies ==
    \/ call(1, BodyRequests)
    \/ call_root(1)
    \/ call_files(1)
    \/ call_video(1)
    \/ FormatProbe(1)
    \/ LockTranscodeCache(1)
    \/ CacheLookup(1)
    \/ CacheInsert(1)
    \/ RespondVideo(1)
    \/ OrElse(1)
    \/ BodyTask(1)
    \/ ClientDisconnect(1)

\* the executor keeps polling a spawned body task, and its content stream
\* yields a chunk, an error or its end
SpecBodiesFair == Init /\ [][NextBodies]_vars /\ WF_vars(BodyTask(1))

\* video requests for the short item, from either device, answered and
\* streamed while others pass through the transcode cache
StreamingRequests ==
    { Request("GET", << "video", "b%20c" >>, None, None, d, None) : d \in Devices }

NextStreaming ==
    \E p \in Streamers :
       \/ call(p, StreamingRequests)
       \/ call_root(p)
       \/ call_video(p)
       \/ FormatProbe(p)
       \/ LockTranscodeCache(p)
       \/ CacheLookup(p)
       \/ CacheInsert(p)
       \/ RespondVideo(p)
       \/ SendChunk(p)
       \/ SendAllDone(p)

SpecStreaming == Init /\ [][NextStreaming]_vars

(***************************************************************************)
(* Properties of the range streamer.                                       *)
(***************************************************************************)
\* the Range header as call_video sees it
TypedRange(p) == ParseRange(req[p].range)

HasFirstSpec(p) ==
    /\ TypedRange(p) # None
    /\ Unwrap(TypedRange(p)).unit = "bytes"
    /\ Unwrap(TypedRange(p)).specs # << >>

FirstSpec(p) == Head(Unwrap(TypedRange(p)).specs)

\* call_video has built the response of p
VideoAnswered(p) ==
    /\ pc[p] \in { "or_else", "done" }
    /\ req[p].uri # << >>
    /\ Head(req[p].uri) = "video"
    /\ down[p].state = "ok"

\* a first spec start-end or start- whose start is below what is available
Satisfiable(p) ==
    /\ HasFirstSpec(p)
    /\ FirstSpec(p).kind \in { "FromTo", "AllFrom" }
    /\ FirstSpec(p).a < size[p].available

\* end' of the claims: the requested end clamped, or the last available byte
ClampedEnd(p) ==
    IF FirstSpec(p).kind = "FromTo"
    THEN Min(FirstSpec(p).b, size[p].available - 1)
    ELSE size[p].available - 1

\* C1: every response call_video builds for a first spec start-end or start-
\* with start < available has status 206, Content-Range start-end'/total (no
\* instance length when the total is unknown), Content-Length end'-start+1 and
\* the body read_range(start, end'+1).
C1_PartialContent ==
    \A p \in Clients :
       (VideoAnswered(p) /\ Satisfiable(p)) =>
          LET r == down[p].resp
              start == FirstSpec(p).a
          IN  /\ r.status = 206
              /\ r.contentRange = << [first |-> start, last |-> ClampedEnd(p),
                                      instance_length |-> size[p].total] >>
              /\ r.contentLength = << ClampedEnd(p) - start + 1 >>
              /\ r.body = [kind |-> "read_range", data |-> << >>,
                           start |-> start, end |-> ClampedEnd(p) + 1]

\* a closed range reaching past the available bytes of a media of unknown
\* total, and an open one on a media of known total, have been answered
C1_Witness ==
    \E p \in Clients :
       /\ pc[p] = "done" /\ VideoAnswered(p) /\ Satisfiable(p)
       /\ FirstSpec(p).kind = "FromTo"
       /\ FirstSpec(p).a > 0
       /\ FirstSpec(p).b > size[p].available - 1
       /\ size[p].total = None
       /\ final[p].resp.status = 206

\* the bytes pushed into the body of p so far
SentBytes(p) == Flatten(sent[p])

\* a first spec start-end with 0 <= start <= end < available
WithinAvailable(p) ==
    /\ HasFirstSpec(p)
    /\ FirstSpec(p).kind = "FromTo"
    /\ FirstSpec(p).a <= FirstSpec(p).b
    /\ FirstSpec(p).b < size[p].available

\* C2: for a range start-end with 0 <= start <= end < available the bytes
\* pushed into the body are, in order and with no gap or duplicate, the bytes
\* of the content at offsets start.. ; a body task that completes has pushed
\* exactly end-start+1 of them.
C2_BodyIsSlice ==
    \A p \in Clients :
       (VideoAnswered(p) /\ WithinAvailable(p)) =>
          LET start == FirstSpec(p).a
              end == FirstSpec(p).b
              id == Unwrap(item[p])
          IN  /\ Len(SentBytes(p)) <= end - start + 1
              /\ \A i \in 1..Len(SentBytes(p)) :
                    SentBytes(p)[i] = ByteAt(id, start + i - 1)
              /\ task[p] = "ok" => Len(SentBytes(p)) = end - start + 1

\* a range of three bytes starting behind offset 0 went out in two chunks
C2_Witness ==
    \E p \in Clients :
       /\ VideoAnswered(p) /\ WithinAvailable(p)
       /\ task[p] = "ok"
       /\ FirstSpec(p).a > 0
       /\ Len(sent[p]) >= 2
       /\ Len(SentBytes(p)) = 3

\* a first spec start-end or start- whose start is not below what is available
Unsatisfiable(p) ==
    /\ HasFirstSpec(p)
    /\ FirstSpec(p).kind \in { "FromTo", "AllFrom" }
    /\ FirstSpec(p).a >= size[p].available

\* C3: a range whose start >= available is answered neither 206 nor 416: the
\* response has status 200, no Content-Range and the body read_all(), and is
\* the response the same media gets without a Range header.
C3_UnsatisfiableIsFull ==
    \A p \in Clients :
       (VideoAnswered(p) /\ Unsatisfiable(p)) =>
          LET r == down[p].resp IN
          /\ r.status = 200
          /\ r.contentRange = << >>
          /\ r.body.kind = "read_all"
          /\ r = VideoResponse(None, size[p])

\* a range starting exactly at the end of the available bytes was answered
C3_Witness ==
    \E p \in Clients :
       /\ pc[p] = "done" /\ VideoAnswered(p) /\ Unsatisfiable(p)
       /\ size[p].available > 0
       /\ FirstSpec(p).a = size[p].available
       /\ final[p].resp.status = 200

\* no Range header (or none that parses), another unit, no spec, or -n first
NoUsableRange(p) ==
    \/ TypedRange(p) = None
    \/ Unwrap(TypedRange(p)).unit # "bytes"
    \/ Unwrap(TypedRange(p)).specs = << >>
    \/ FirstSpec(p).kind = "Last"

\* C4: without a Range header, with another range unit, with no spec or with
\* a suffix range first, the response has status 200 and the body read_all(),
\* and carries Content-Length exactly when the total is known, equal to it.
C4_FullContent ==
    \A p \in Clients :
       (VideoAnswered(p) /\ NoUsableRange(p)) =>
          LET r == down[p].resp IN
          /\ r.status = 200
          /\ r.body.kind = "read_all"
          /\ IsSome(r.contentLength) <=> IsSome(size[p].total)
          /\ IsSome(size[p].total) => r.contentLength = size[p].total

\* a suffix range on a media still growing, its total unknown, was answered
C4_Witness ==
    \E p \in Clients :
       /\ pc[p] = "done" /\ VideoAnswered(p)
       /\ HasFirstSpec(p) /\ FirstSpec(p).kind = "Last"
       /\ size[p].total = None
       /\ size[p].available > 0
       /\ final[p].resp.contentLength = None

(***************************************************************************)
(* Properties of the transcode cache (under SpecConcurrent).               *)
(***************************************************************************)
Keys == { j.key : j \in jobs }
JobsOf(k) == { j \in jobs : j.key = k }

Segment(p, i) == IF Len(req[p].uri) >= i THEN req[p].uri[i] ELSE ""

Unmatched(p) ==
    \/ Segment(p, 1) \notin { "root.xml", "connection", "content", "files", "video" }
    \/ Segment(p, 1) = "connection" /\ Segment(p, 2) # "desc.xml"
    \/ Segment(p, 1) = "content" /\ Segment(p, 2) \notin { "control", "desc.xml" }

Routers == { "call_root", "call_connection", "call_content" }

Leaves == { "root.xml", "connection/desc.xml", "content/desc.xml",
            "call_content_soap", "call_files", "call_video",
            "call_not_found", "call_method_not_allowed" }

Reached(p, handlers) == { i \in 1..Len(trace[p]) : trace[p][i] \in handlers }

\* the router took one segment per level, from the left, and one leaf ran
RoutedOnce(p) ==
    /\ Cardinality(Reached(p, Leaves)) = 1
    /\ LET n == Min(Len(req[p].uri), Cardinality(Reached(p, Routers))) IN
       req[p].path = SubSeq(req[p].uri, n + 1, Len(req[p].uri))

\* C6 as stated: every request reaches exactly one leaf handler, and a
\* request no route matches reaches call_not_found alone and is answered 404.
C6_UnmatchedIs404 ==
    \A p \in Clients :
       pc[p] = "done" =>
          /\ RoutedOnce(p)
          /\ Unmatched(p) =>
                /\ Reached(p, Leaves) = Reached(p, { "call_not_found" })
                /\ final[p].resp.status = 404

\* C6, amended: every request reaches exactly one leaf handler; a request no
\* route matches reaches call_not_found alone and is answered 404 when its
\* body could be read, and with the 500 of the generic error path when
\* reading its body failed.
C6_UnmatchedIsNotFound ==
    \A p \in Clients :
       pc[p] = "done" =>
          /\ RoutedOnce(p)
          /\ Unmatched(p) =>
                /\ Reached(p, Leaves) = Reached(p, { "call_not_found" })
                /\ down[p].state = "ok" => final[p].resp.status = 404
                /\ down[p].state = "err" =>
                      down[p].err = "Body" /\ final[p].resp.status = 500

\* connection/<something else> fell through at the second level and got 404
C6_Witness ==
    \E p \in Clients :
       /\ pc[p] = "done"
       /\ Segment(p, 1) = "connection" /\ Segment(p, 2) = "control"
       /\ trace[p] = << "call_root", "call_connection", "call_not_found" >>
       /\ final[p].resp.status = 404

\* C7: root.xml answers GET with 200 and the device description, and every
\* other method with 405 and never the device description.
C7_RootXmlGetOnly ==
    \A p \in Clients :
       (pc[p] = "done" /\ Segment(p, 1) = "root.xml") =>
          IF req[p].method = "GET"
          THEN /\ final[p].resp.status = 200
               /\ final[p].resp.body.kind = "static"
               /\ final[p].resp.body.data = << "root.xml" >>
          ELSE /\ final[p].resp.status = 405
               /\ final[p].resp.body.data # << "root.xml" >>

\* a POST for root.xml has been answered
C7_Witness ==
    \E p \in Clients :
       /\ pc[p] = "done" /\ Segment(p, 1) = "root.xml"
       /\ req[p].method = "POST"
       /\ final[p].resp.status = 405

\* C8: the service future never fails, and whenever the future of call_root
\* resolved to an error, whichever, the answer is status 500 with the body
\* "Internal Error", no header and nothing of the error.
C8_ErrorsBecome500 ==
    \A p \in Clients :
       /\ final[p].state # "err"
       /\ (pc[p] = "done" /\ down[p].state = "err") =>
             /\ final[p].state = "ok"
             /\ final[p].resp =
                   [status |-> 500, contentType |-> "", acceptRanges |-> FALSE,
                    contentRange |-> << >>, contentLength |-> << >>,
                    body |-> [kind |-> "static", data |-> << "Internal Error" >>,
                              start |-> 0, end |-> 0]]

\* a video request whose body task could not be spawned has been answered
C8_Witness ==
    \E p \in Clients :
       /\ pc[p] = "done"
       /\ down[p].state = "err" /\ down[p].err = "Spawn"
       /\ final[p].resp.status = 500

\* the rest of the path of a files/ or video/ request decodes to an id the
\* Media Tree does not resolve
Unresolvable(p) ==
    /\ Segment(p, 1) \in { "files", "video" }
    /\ Len(req[p].uri) >= 2
    /\ decoded_path(Tail(req[p].uri)).ok
    /\ ~lookup(decoded_path(Tail(req[p].uri)).id)

\* C9: a files/<id> or video/<id> request whose id the Media Tree cannot
\* resolve is answered 404, as an unmatched route is.
C9_UnresolvableIs404 ==
    \A p \in Clients :
       (pc[p] = "done" /\ Unresolvable(p)) => final[p].resp.status = 404

\* the first character of a header value that is not a double quote
FirstUnquoted(v) ==
    LET idx == { i \in 1..Len(v) : v[i] # "Q" }
    IN  IF idx = {} THEN "" ELSE v[CHOOSE i \in idx : \A j \in idx : i <= j]

ToControl(p) == Segment(p, 1) = "content" /\ Segment(p, 2) = "control"

IsFault(r) ==
    /\ r.status = 200
    /\ r.body.kind = "static"
    /\ SubSeq(r.body.data, 1, 2) = << "Envelope", "Fault" >>

\* C10: content/control without a Soapaction header is answered 200 with the
\* SOAP Fault "No Soapaction header."; with a Soapaction that, its quotes
\* stripped, does not start with the ContentDirectory:1 namespace and '#', it
\* is answered 200 with a SOAP Fault; neither parses the request body nor
\* consults the Media Tree.
C10_SoapactionFaults ==
    \A p \in Clients :
       (pc[p] = "done" /\ ToControl(p)) =>
          /\ req[p].soapaction = None =>
                /\ IsFault(final[p].resp)
                /\ final[p].resp.body.data =
                      << "Envelope", "Fault", "SOAP-ENV:Client", "No Soapaction header." >>
                /\ Reached(p, { "to_xml", "lookup" }) = {}
          /\ (req[p].soapaction # None
                /\ FirstUnquoted(Unwrap(req[p].soapaction)) # "NS") =>
                /\ IsFault(final[p].resp)
                /\ Reached(p, { "to_xml", "lookup" }) = {}

\* a quoted Soapaction naming Browse outside the namespace got a Fault, and
\* so did a request without the header
C10_Witness ==
    \E p \in Clients :
       /\ pc[p] = "done" /\ ToControl(p)
       /\ req[p].soapaction = << << "Q", "Browse", "Q" >> >>
       /\ IsFault(final[p].resp)
       /\ final[p].resp.body.data[4] = "Unknown action namespace: "

\* the action a Soapaction value names under the namespace: what stands
\* between the namespace and the closing quotes
ActionNamed(v) ==
    LET idx == { i \in 1..Len(v) : v[i] # "Q" }
        first == CHOOSE i \in idx : \A j \in idx : i <= j
        last == CHOOSE i \in idx : \A j \in idx : j <= i
    IN  SubSeq(v, first + 1, last)

\* the Soapaction of p names an action under the ContentDirectory:1 namespace
\* (an action name holds no double quote)
NamesAction(p) ==
    /\ req[p].soapaction # None
    /\ FirstUnquoted(Unwrap(req[p].soapaction)) = "NS"
    /\ \A i \in 1..Len(ActionNamed(Unwrap(req[p].soapaction))) :
          ActionNamed(Unwrap(req[p].soapaction))[i] # "Q"

\* C11: content/control with a Soapaction naming, under the namespace, an
\* action other than Browse is answered 200 with a SOAP Fault envelope whose
\* fault string is "Unknown action " and the quoted name of that action; a
\* request reaches to_xml and the browse handler only if its Soapaction,
\* stripped of quotes, is the namespace followed by Browse.
C11_UnknownActionFaults ==
    \A p \in Clients :
       ToControl(p) =>
          /\ (pc[p] = "done" /\ NamesAction(p)
                /\ ActionNamed(Unwrap(req[p].soapaction)) # << "Browse" >>) =>
                /\ IsFault(final[p].resp)
                /\ final[p].resp.contentType = "text/xml"
                /\ final[p].resp.body.data =
                      << "Envelope", "Fault", "SOAP-ENV:Client", "Unknown action ", "Q" >>
                         \o ActionNamed(Unwrap(req[p].soapaction)) \o << "Q" >>
          /\ Reached(p, { "to_xml", "call_dlna_browse" }) # {} =>
                /\ NamesAction(p)
                /\ ActionNamed(Unwrap(req[p].soapaction)) = << "Browse" >>

\* a quoted Soapaction naming Search got the Fault naming Search, and one
\* naming BrowseSearch got a Fault too
C11_Witness ==
    \E p \in Clients :
       /\ pc[p] = "done" /\ ToControl(p)
       /\ req[p].soapaction \in { << << "Q", "NS", "Search" >> >>,
                                  << << "NS", "Browse", "Search" >> >> }
       /\ IsFault(final[p].resp)
       /\ final[p].resp.body.data[6] \in { "Search", "Browse" }

\* call_dlna_browse ran for p and built no result: the ObjectID did not
\* resolve, or the listing of the children failed
BrowseFailed(p) ==
    /\ Reached(p, { "call_dlna_browse" }) # {}
    /\ ~lookup(Unwrap(req[p].objectId)) \/ didl[p] = None

\* C12: a Browse whose ObjectID the Media Tree does not resolve, or whose
\* children listing fails, builds no DIDL-Lite result and fails as a whole:
\* the handler's future is an error and the client gets status 500 with the
\* body "Internal Error", which is no SOAP envelope.
C12_BrowseFailureIs500 ==
    \A p \in Clients :
       BrowseFailed(p) =>
          /\ didl[p] = None
          /\ down[p].state = "err"
          /\ pc[p] = "done" =>
                /\ final[p].state = "ok"
                /\ final[p].resp.status = 500
                /\ final[p].resp.body = StaticBody(<< "Internal Error" >>)
                /\ final[p].resp.contentType # "text/xml"
                /\ ~IsFault(final[p].resp)

\* a Browse of the unknown id zz and a Browse of a file were answered 500
C12_Witness ==
    \E p \in Clients :
       /\ pc[p] = "done" /\ BrowseFailed(p)
       /\ \/ req[p].objectId = Some(<< "zz" >>) /\ down[p].err = "NotFound"
          \/ req[p].objectId = Some(<< "a" >>) /\ down[p].err = "Children"
       /\ final[p].resp.status = 500

\* the resources the claim gives item it of the result r beyond its video
\* resource: one per Image child whose id starts with the prefix of the item
ExpectedSupport(r, it) ==
    { ImageRes(c) : c \in { r.children[k] : k \in 1..Len(r.children) }
                           \cap { e \in Entries : /\ e.type = "Image"
                                                  /\ starts_with(e.id, prefix(it)) } }

\* the resources item it carries beyond its video resource
ExtraRes(it) == SubSeq(it.res, 2, Len(it.res))

\* C13: in every Browse result, the extra resources of every video item are
\* exactly one files/<id> resource per Image child whose id starts with the
\* prefix of the item: none for Subtitles, none for other prefixes, none
\* missing and none twice.
C13_SupportAttached ==
    \A p \in Clients :
       didl[p] # None =>
          \A i \in 1..Len(Unwrap(didl[p]).items) :
             LET it == Unwrap(didl[p]).items[i] IN
             /\ { ExtraRes(it)[k] : k \in 1..Len(ExtraRes(it)) }
                   = ExpectedSupport(Unwrap(didl[p]), it)
             /\ Len(ExtraRes(it)) = Cardinality(ExpectedSupport(Unwrap(didl[p]), it))

\* the example of the specification: video e1 with e1.j, e1.s and e2.j
C13_Example ==
    \A p \in Clients :
       (/\ didl[p] # None
        /\ { Unwrap(didl[p]).children[k] : k \in 1..Len(Unwrap(didl[p]).children) }
              = { Entry(<< "e", "1" >>, "Video"), Entry(<< "e", "1", ".", "j" >>, "Image"),
                  Entry(<< "e", "1", ".", "s" >>, "Subtitles"),
                  Entry(<< "e", "2", ".", "j" >>, "Image") })
       => ExtraRes(Unwrap(didl[p]).items[1])
             = << ImageRes(Entry(<< "e", "1", ".", "j" >>, "Image")) >>

\* the children of type t in the listing behind the result r
ChildrenOf(r, t) == { c \in { r.children[k] : k \in 1..Len(r.children) } : c.type = t }

\* the number an id of the form <letter><digits> ends with
Number(id) == NumVal(Tail(id), Len(id) - 1)

\* the ids of seq are those of the entries in set, each once, and their
\* numbers grow along seq
InNaturalOrder(seq, set) ==
    /\ { seq[k].id : k \in 1..Len(seq) } = { c.id : c \in set }
    /\ Len(seq) = Cardinality(set)
    /\ \A k \in 1..(Len(seq) - 1) : Number(seq[k].id) < Number(seq[k + 1].id)

\* C14: in every Browse result the containers are the Directory children and
\* the items the Video children, each sequence in natural order of the ids
\* (digit runs by value: e1, e2, e10), whatever the order of the listing; a
\* child of type Other is in neither sequence.
C14_NaturalOrder ==
    \A p \in Clients :
       didl[p] # None =>
          /\ InNaturalOrder(Unwrap(didl[p]).containers, ChildrenOf(Unwrap(didl[p]), "Directory"))
          /\ InNaturalOrder(Unwrap(didl[p]).items, ChildrenOf(Unwrap(didl[p]), "Video"))
          /\ \A c \in ChildrenOf(Unwrap(didl[p]), "Other") :
                /\ \A k \in 1..Len(Unwrap(didl[p]).containers) :
                      Unwrap(didl[p]).containers[k].id # c.id
                /\ \A k \in 1..Len(Unwrap(didl[p]).items) :
                      Unwrap(didl[p]).items[k].id # c.id

\* the tree listed e1, e10, e2 and a child of type Other, and the answer
\* holds e1, e2, e10
C14_Witness ==
    \E p \in Clients :
       /\ pc[p] = "done" /\ final[p].resp.status = 200 /\ didl[p] # None
       /\ Unwrap(didl[p]).children =
             << Entry(<< "e", "1" >>, "Video"), Entry(<< "e", "1", "0" >>, "Video"),
                Entry(<< "e", "2" >>, "Video"), Entry(<< "e", "1", ".", "o" >>, "Other") >>
       /\ [k \in 1..3 |-> Unwrap(didl[p]).items[k].id] =
             << << "e", "1" >>, << "e", "2" >>, << "e", "1", "0" >> >>

\* C20: no Browse enters an unreachable!() arm of the support scan: in every
\* result the support vector holds only Image and Subtitles entries, the
\* containers are Directory children, the items Video children, and no
\* request ends in a panic.
C20_NoUnreachable ==
    \A p \in Clients :
       /\ pc[p] # "panicked"
       /\ didl[p] # None =>
             /\ ~Unwrap(didl[p]).panic
             /\ \A k \in 1..Len(Unwrap(didl[p]).support) :
                   Unwrap(didl[p]).support[k].type \in { "Image", "Subtitles" }
             /\ \A k \in 1..Len(Unwrap(didl[p]).containers) :
                   Entry(Unwrap(didl[p]).containers[k].id, "Directory")
                      \in ChildrenOf(Unwrap(didl[p]), "Directory")
             /\ \A k \in 1..Len(Unwrap(didl[p]).items) :
                   Entry(Unwrap(didl[p]).items[k].id, "Video")
                      \in ChildrenOf(Unwrap(didl[p]), "Video")

\* a listing with a video, its image, its subtitles, and an Other entry that
\* shares its prefix was answered, the scan having passed over the support
C20_Witness ==
    \E p \in Clients :
       /\ pc[p] = "done" /\ final[p].resp.status = 200 /\ didl[p] # None
       /\ ChildrenOf(Unwrap(didl[p]), "Other") # {}
       /\ Len(Unwrap(didl[p]).support) = 2
       /\ Len(Unwrap(didl[p]).items) = 1
       /\ Unwrap(didl[p]).items[1].id = << "e", "1" >>
       /\ Len(Unwrap(didl[p]).items[1].res) = 2

\* C19: whatever start, end and available are (a written end below the
\* start and nothing available included), a 206 of call_video has
\* 0 < available and start <= end' <= available - 1, its Content-Length is
\* end' + 1 - start >= 1 and the end handed to read_range is end' + 1, both
\* computed without wrapping; with nothing available the answer is no 206.
C19_RangeArithmetic ==
    \A p \in Clients :
       VideoAnswered(p) =>
          /\ size[p].available = 0 => down[p].resp.status = 200
          /\ down[p].resp.status = 206 =>
                LET start == Unwrap(down[p].resp.contentRange).first
                    end == Unwrap(down[p].resp.contentRange).last
                IN  /\ size[p].available > 0
                    /\ start <= end
                    /\ end <= size[p].available - 1
                    /\ end + 1 <= U64Max
                    /\ down[p].resp.body.start = start
                    /\ down[p].resp.body.end = end + 1
                    /\ Unwrap(down[p].resp.contentLength) = end + 1 - start
                    /\ Unwrap(down[p].resp.contentLength) >= 1

\* a header whose first written spec has its end below its start, followed by
\* 0-, was answered 206 for the whole of what is available
C19_Witness ==
    \E p \in Clients :
       /\ VideoAnswered(p)
       /\ down[p].resp.status = 206
       /\ req[p].range # None
       /\ Len(Unwrap(req[p].range).specs) = 2
       /\ Unwrap(req[p].range).specs[1].kind = "FromTo"
       /\ Unwrap(req[p].range).specs[1].b < Unwrap(req[p].range).specs[1].a
       /\ Unwrap(down[p].resp.contentLength) = size[p].available


\* p is inside the lookup-or-insert call of the transcode cache
InCacheGet(p) == pc[p] \in { "cache_lookup", "cache_insert" }

\* C18: whoever holds the mutex of the transcode cache is inside the
\* lookup-or-insert call: its format probe is over, its response is not
\* built, no body task of its own exists and no chunk was read or sent; at
\* most one request holds it; and a request waiting for the lock waits only
\* for a request inside that call, never for one that streams or awaits.
C18_LockOnlyAroundGet ==
    /\ Cardinality(lock) <= 1
    /\ \A p \in Clients :
          /\ p \in lock =>
                /\ InCacheGet(p)
                /\ pc[p] \notin { "format", "respond_video" }
                /\ item[p] # None
                /\ down[p] = Pending
                /\ task[p] = "none"
                /\ chunks[p] = << >> /\ sent[p] = << >>
          /\ (pc[p] = "cache_lock" /\ \A q \in Clients : ~InCacheGet(q)) => lock = {}

\* one request holds the lock for its key while the body of another key is
\* being streamed, chunks remaining
C18_Witness ==
    \E p, q \in Clients :
       /\ p \in lock /\ pc[p] = "cache_lookup"
       /\ task[q] = "running" /\ chunks[q] # << >>
       /\ TranscodeKey(p) # TranscodeKey(q)

\* the bursts that fit into the time observed
BurstNumbers == 1..((Horizon \div IntervalSecs) + 1)

\* C15: no outcome of a send ends the beacon task: the task never ends;
\* while it waits, the Interval is armed one interval after the tick of the
\* latest burst; a burst makes its calls in order from the first; and after
\* a burst that a send error cut short, the next tick starts another burst
\* at the first message.
C15_BeaconResilient ==
    /\ [](beacon # "ended")
    /\ []((beacon = "waiting" /\ bursts # << >>) =>
             deadline = bursts[Len(bursts)].at + IntervalSecs)
    /\ [](beacon = "sending" =>
             /\ ~bursts[Len(bursts)].failed
             /\ nextMsg = Len(bursts[Len(bursts)].sent) + 1)
    /\ \A n \in BurstNumbers :
          (/\ Len(bursts) = n /\ bursts[n].failed
           /\ beacon = "waiting" /\ deadline <= Horizon)
             ~> (Len(bursts) = n + 1 /\ beacon = "sending" /\ nextMsg = 1)

\* the first burst was cut short by a send error after a short write, and
\* the second burst has sent uuid again
C15_Witness ==
    /\ Len(bursts) = 2
    /\ bursts[1].failed /\ bursts[1].sent = << "uuid" >>
    /\ bursts[2].at = bursts[1].at + IntervalSecs
    /\ bursts[2].sent = << "uuid" >>
    /\ outcome = "short"

\* an observation window: 3 intervals, from second t on
WindowSecs == 3 * IntervalSecs
WindowStarts == 0..(Horizon - WindowSecs)
InWindow(t) == { n \in 1..Len(bursts) : t <= bursts[n].at /\ bursts[n].at < t + WindowSecs }

\* burst n handed each of the 5 messages to the socket once
AllFive(n) ==
    /\ Len(bursts[n].sent) = Len(Messages)
    /\ { bursts[n].sent[k] : k \in 1..Len(bursts[n].sent) }
          = { Messages[k] : k \in 1..Len(Messages) }

\* C16 as stated: in every window of 3 intervals that has passed there are
\* exactly 3 bursts, and each of them holds all 5 NOTIFY messages, each once.
C16_ThreeFullBursts ==
    \A t \in WindowStarts :
       now >= t + WindowSecs =>
          /\ Cardinality(InWindow(t)) = 3
          /\ \A n \in InWindow(t) : AllFive(n)

\* C16: in every window of 3 intervals that has passed there are exactly 3
\* bursts, one per tick at 0 s, 10 s, 20 s, ...; each hands the messages to
\* the socket in the order uuid, root, mediaserver, connectionmanager,
\* contentdir, each once, up to the first send error: a burst without send
\* error holds all 5, a burst with one lacks the message that failed and
\* those after it.
C16_ThreeBurstsUnlessError ==
    /\ \A n \in 1..Len(bursts) : bursts[n].at = (n - 1) * IntervalSecs
    /\ \A t \in WindowStarts :
          now >= t + WindowSecs =>
             /\ Cardinality(InWindow(t)) = 3
             /\ \A n \in InWindow(t) :
                   /\ Len(bursts[n].sent) <= Len(Messages)
                   /\ bursts[n].sent = SubSeq(Messages, 1, Len(bursts[n].sent))
                   /\ bursts[n].failed <=> ~AllFive(n)

\* 30 s have passed with a full burst at 0 s, a burst at 10 s that a send
\* error ended after 2 messages, and a full burst at 20 s
C16_Witness ==
    /\ now = WindowSecs
    /\ Len(bursts) = 3
    /\ AllFive(1) /\ AllFive(3)
    /\ bursts[2].failed /\ Len(bursts[2].sent) = 2

\* C17: once the receiver of the body of p is dropped, the body task of p
\* ends (under the fairness of SpecBodiesFair); from then on it pushes nothing and
\* takes at most one more chunk from the content, the one whose send fails
\* and ends it, so it does not read the remaining content to its end.
C17_CancelledTaskEnds ==
    /\ \A p \in Clients : (task[p] = "running" /\ ~rx[p]) ~> (task[p] # "running")
    /\ [][\A p \in Clients :
             (~rx[p] /\ task[p] = "running") =>
                /\ sent'[p] = sent[p]
                /\ chunks'[p] # chunks[p] =>
                      /\ task'[p] = "err"
                      /\ chunks'[p] = Tail(chunks[p])]_vars

\* the client left with two chunks to come; the task took one, failed to send
\* it and ended, the other unread
C17_Witness ==
    \E p \in Clients :
       /\ task[p] = "err" /\ ~rx[p]
       /\ Head(req[p].uri) \in { "files", "video" }
       /\ chunks[p] # << >>
       /\ Len(sent[p]) + Len(chunks[p]) + 1 = Len(Chunked(ContentOf(Unwrap(item[p]))))

====
